---- MODULE Spec2Model ----
(***************************************************************************)
(* A model of the bdk-ffi conversion layer (src/bdk-ffi/src/lib.rs):       *)
(*   - the AddressIndex strategy passed to the wallet's get_address,       *)
(*   - the Balance conversion,                                             *)
(*   - LocalUtxo::from_utxo,                                               *)
(*   - the ProgressHolder callback adapter,                                *)
(*   - Transaction::new / Transaction::serialize.                          *)
(* Each component has its own specification (SpecAddr, SpecBalance,        *)
(* SpecUtxo, SpecProgress, SpecCodec) over its own variables.              *)
(***************************************************************************)
EXTENDS Integers, Sequences, FiniteSets, TLC

\* ------------------------------------------------------------------------
\* Bounds of the model
\* ------------------------------------------------------------------------
MaxIndex == 3
MaxCalls == 4
MaxSats == 3
MaxEvents == 3
MaxLen == 9

VARIABLES
    \* Address Index Controller
    current_index,   \* the keychain's cursor (spec.md 3, Address Index State)
    used,            \* indices the backend scan has seen as used
    ncalls,          \* number of next_address calls made so far
    call,            \* the AddressIndex passed to the last next_address call
    prev_call,       \* the AddressIndex passed to the call before the last one
    ret,             \* the AddressInfo the last next_address call returned
    newIssued,       \* history: indices returned by New calls so far
    newSinceReset,   \* history: indices returned by New calls since the last Reset
    \* Balance conversion
    bdk_balance,     \* the BdkBalance handed to Balance::from
    balance,         \* the Balance it produced (NoBalance before the call)
    \* LocalUtxo::from_utxo
    bdk_utxo,        \* the bdk::LocalUtxo handed to from_utxo
    network,         \* the Network handed to from_utxo
    local_utxo,      \* what the call produced: NotCalled, a LocalUtxo, or Panicked
    \* Sync Progress Bridge
    events,          \* the events the backend has reported to ProgressHolder::update
    observed,        \* the calls the observer's update has received
    results,         \* what ProgressHolder::update has returned to the backend
    sync_state,      \* "running", or "panicked" once a panic unwound into the sync
    \* Transaction codec
    transaction_bytes,  \* the bytes handed to Transaction::new
    decoder_consumed,   \* how many bytes the Cursor of new had consumed when it returned
    tx_result,          \* what new returned: NotCalled, [ok, tx] or [ok, error]
    serialized          \* what serialize returned on the Transaction (NotCalled before)

addrVars ==
    <<current_index, used, ncalls, call, prev_call, ret, newIssued, newSinceReset>>

balanceVars == <<bdk_balance, balance>>
utxoVars == <<bdk_utxo, network, local_utxo>>
progressVars == <<events, observed, results, sync_state>>

codecVars == <<transaction_bytes, decoder_consumed, tx_result, serialized>>

vars == <<addrVars, balanceVars, utxoVars, progressVars, codecVars>>

\* Values of the variables of the components a specification leaves idle.
NoCall == <<"none">>
NoInfo == [index |-> -1, address |-> <<"none">>]
NoBalance == [none |-> TRUE]
NotCalled == [state |-> "not called"]
Panicked == [state |-> "panicked"]

IdleAddr ==
    /\ current_index = 0
    /\ used = {}
    /\ ncalls = 0
    /\ call = NoCall
    /\ prev_call = NoCall
    /\ ret = NoInfo
    /\ newIssued = {}
    /\ newSinceReset = {}

IdleBalance ==
    /\ bdk_balance = NoBalance
    /\ balance = NoBalance

IdleUtxo ==
    /\ bdk_utxo = NotCalled
    /\ network = "none"
    /\ local_utxo = NotCalled

IdleProgress ==
    /\ events = <<>>
    /\ observed = <<>>
    /\ results = <<>>
    /\ sync_state = "running"

IdleCodec ==
    /\ transaction_bytes = <<>>
    /\ decoder_consumed = 0
    /\ tx_result = NotCalled
    /\ serialized = NotCalled

\* ========================================================================
\* Address Index Controller
\* ========================================================================

\* lib.rs 62-85: enum AddressIndex { New, LastUnused, Peek{index}, Reset{index} }
AddressIndex ==
    {<<"New">>, <<"LastUnused">>}
        \cup {<<"Peek", i>> : i \in 0 .. MaxIndex}
        \cup {<<"Reset", i>> : i \in 0 .. MaxIndex}

\* Variants of the match of lib.rs 89-94, each with one arm wrong.
From_AddressIndex_NewAsLastUnused(x) ==
    CASE x[1] = "New" -> <<"Bdk::LastUnused">>
      [] x[1] = "LastUnused" -> <<"Bdk::LastUnused">>
      [] x[1] = "Peek" -> <<"Bdk::Peek", x[2]>>
      [] x[1] = "Reset" -> <<"Bdk::Reset", x[2]>>

From_AddressIndex_PeekAsReset(x) ==
    CASE x[1] = "New" -> <<"Bdk::New">>
      [] x[1] = "LastUnused" -> <<"Bdk::LastUnused">>
      [] x[1] = "Peek" -> <<"Bdk::Reset", x[2]>>
      [] x[1] = "Reset" -> <<"Bdk::Reset", x[2]>>

From_AddressIndex_ResetAsPeek(x) ==
    CASE x[1] = "New" -> <<"Bdk::New">>
      [] x[1] = "LastUnused" -> <<"Bdk::LastUnused">>
      [] x[1] = "Peek" -> <<"Bdk::Peek", x[2]>>
      [] x[1] = "Reset" -> <<"Bdk::Peek", x[2]>>

From_AddressIndex_LastUnusedAsNew(x) ==
    CASE x[1] = "New" -> <<"Bdk::New">>
      [] x[1] = "LastUnused" -> <<"Bdk::New">>
      [] x[1] = "Peek" -> <<"Bdk::Peek", x[2]>>
      [] x[1] = "Reset" -> <<"Bdk::Reset", x[2]>>

\* lib.rs 87-96: impl From<AddressIndex> for BdkAddressIndex
From_AddressIndex(x) ==
    CASE x[1] = "New" -> <<"Bdk::New">>
      [] x[1] = "LastUnused" -> <<"Bdk::LastUnused">>
      [] x[1] = "Peek" -> <<"Bdk::Peek", x[2]>>
      [] x[1] = "Reset" -> <<"Bdk::Reset", x[2]>>

\* The descriptor's address at a derivation index (an opaque value that
\* determines, and is determined by, the index).
derive_address(i) == [derived |-> i]

\* Address::to_string as used at lib.rs 55: the textual form of an address.
address_to_string(a) == <<"addr", a.derived>>

\* lib.rs 51-58: impl From<BdkAddressInfo> for AddressInfo
From_BdkAddressInfo(x) ==
    [index |-> x.index, address |-> address_to_string(x.address)]

\* The backend wallet's get_address (spec.md 4.1): the cursor after the call
\* and the BdkAddressInfo it returns, for strategy s at cursor cur with the
\* used set u.
BdkNextCursor(s, cur, u) ==
    CASE s[1] = "Bdk::New" -> cur + 1
      [] s[1] = "Bdk::LastUnused" -> IF cur \in u THEN cur + 1 ELSE cur
      [] s[1] = "Bdk::Peek" -> cur
      [] s[1] = "Bdk::Reset" -> s[2]

BdkReturnedIndex(s, cur, u) ==
    CASE s[1] = "Bdk::New" -> cur + 1
      [] s[1] = "Bdk::LastUnused" -> IF cur \in u THEN cur + 1 ELSE cur
      [] s[1] = "Bdk::Peek" -> s[2]
      [] s[1] = "Bdk::Reset" -> s[2]

BdkGetAddress(s, cur, u) ==
    [index |-> BdkReturnedIndex(s, cur, u),
     address |-> derive_address(BdkReturnedIndex(s, cur, u))]

InitAddr ==
    /\ IdleAddr
    /\ IdleBalance
    /\ IdleUtxo
    /\ IdleProgress
    /\ IdleCodec

\* Wallet::get_address(address_index):
\*   wallet.get_address(address_index.into()).map(AddressInfo::from)
next_address(x) ==
    LET s == From_AddressIndex(x)
        info == BdkGetAddress(s, current_index, used)
    IN  /\ ncalls < MaxCalls
        /\ BdkNextCursor(s, current_index, used) <= MaxIndex
        /\ ncalls' = ncalls + 1
        /\ call' = x
        /\ prev_call' = call
        /\ current_index' = BdkNextCursor(s, current_index, used)
        /\ ret' = From_BdkAddressInfo(info)
        /\ newIssued' = IF x[1] = "New" THEN newIssued \cup {info.index} ELSE newIssued
        /\ newSinceReset' =
              CASE x[1] = "New" -> newSinceReset \cup {info.index}
                [] x[1] = "Reset" -> {}
                [] OTHER -> newSinceReset
        /\ UNCHANGED <<used, balanceVars, utxoVars, progressVars, codecVars>>

NextAddressNew == next_address(<<"New">>)
NextAddressLastUnused == next_address(<<"LastUnused">>)
NextAddressPeek == \E i \in 0 .. MaxIndex : next_address(<<"Peek", i>>)
NextAddressReset == \E i \in 0 .. MaxIndex : next_address(<<"Reset", i>>)

\* A backend scan observes a transaction paying the address at index i.
ScanMarksUsed ==
    \E i \in 0 .. MaxIndex :
        /\ i \notin used
        /\ used' = used \cup {i}
        /\ UNCHANGED <<current_index, ncalls, call, prev_call, ret, newIssued, newSinceReset>>
        /\ UNCHANGED <<balanceVars, utxoVars, progressVars, codecVars>>

NextAddr ==
    \/ NextAddressNew
    \/ NextAddressLastUnused
    \/ NextAddressPeek
    \/ NextAddressReset
    \/ ScanMarksUsed

SpecAddr == InitAddr /\ [][NextAddr]_vars

\* ------------------------------------------------------------------------
\* Properties of the Address Index Controller
\* ------------------------------------------------------------------------

\* A step that is a next_address call (ScanMarksUsed leaves ncalls alone).
IsCall == ncalls' = ncalls + 1

\* C4 (as stated): over any sequence of next_address calls, every New call
\* returns an index strictly greater than every index an earlier New call
\* returned, so no New call returns an index already returned by New.
C4_NewNeverRepeats ==
    [][(IsCall /\ call' = <<"New">>) =>
          \A j \in newIssued : ret'.index > j]_vars

\* C4 (amended): over a sequence of New, LastUnused and Peek calls with no
\* Reset among them, every New call returns an index strictly greater than
\* every index returned by an earlier New call of that sequence.
C4_NewIncreasesWithoutReset ==
    [][(IsCall /\ call' = <<"New">>) =>
          \A j \in newSinceReset : ret'.index > j]_vars

\* Two New calls with no Reset after the first have both returned.
C4_Witness ==
    /\ call = <<"New">>
    /\ Cardinality(newSinceReset) >= 2

\* C5: a Peek{index} call returns the given index, leaves current_index
\* unchanged, and leaves unchanged the index that a New, LastUnused or Reset
\* call issued next would return and the cursor it would leave.
C5_PeekReadOnly ==
    [][(IsCall /\ call'[1] = "Peek") =>
          /\ ret'.index = call'[2]
          /\ ret'.address = <<"addr", call'[2]>>
          /\ current_index' = current_index
          /\ \A x \in AddressIndex :
                /\ BdkReturnedIndex(From_AddressIndex(x), current_index', used')
                      = BdkReturnedIndex(From_AddressIndex(x), current_index, used)
                /\ BdkNextCursor(From_AddressIndex(x), current_index', used')
                      = BdkNextCursor(From_AddressIndex(x), current_index, used)]_vars

\* A Peek beyond the cursor was made after New had advanced the cursor.
C5_Witness ==
    /\ call[1] = "Peek"
    /\ call[2] > current_index
    /\ current_index > 0
    /\ ret.index = call[2]

\* C6: a Reset{i} call sets current_index to i and returns index i, and a New
\* call issued immediately after it returns index i + 1.
C6_ResetThenNew ==
    [][/\ (IsCall /\ call'[1] = "Reset") =>
             (current_index' = call'[2] /\ ret'.index = call'[2])
       /\ (IsCall /\ call[1] = "Reset" /\ call' = <<"New">>) =>
             (ret'.index = call[2] + 1 /\ current_index' = call[2] + 1)]_vars

\* New has followed a Reset that moved the cursor below an index already issued.
C6_Witness ==
    /\ prev_call[1] = "Reset"
    /\ call = <<"New">>
    /\ ret.index = prev_call[2] + 1
    /\ \E j \in newIssued : j > ret.index

\* C7: a LastUnused call returns current_index and leaves the cursor unchanged
\* when current_index is not in the used set; when it is, the call advances
\* the cursor by one and returns the new index, as New does.
C7_LastUnused ==
    [][(IsCall /\ call' = <<"LastUnused">>) =>
          IF current_index \notin used
             THEN ret'.index = current_index /\ current_index' = current_index
             ELSE /\ ret'.index = current_index + 1
                  /\ current_index' = current_index + 1
                  /\ ret'.index = BdkReturnedIndex(<<"Bdk::New">>, current_index, used)
                  /\ current_index' = BdkNextCursor(<<"Bdk::New">>, current_index, used)]_vars

\* The first call is LastUnused on a used index 0: it has acted as New.
C7_Witness ==
    /\ ncalls = 1
    /\ call = <<"LastUnused">>
    /\ 0 \in used
    /\ ret.index = 1
    /\ current_index = 1

\* The first two calls are LastUnused on an unused index: both return it.
C7_WitnessUnused ==
    /\ ncalls = 2
    /\ call = <<"LastUnused">>
    /\ prev_call = <<"LastUnused">>
    /\ used = {}
    /\ ret.index = 0
    /\ current_index = 0

\* ========================================================================
\* Balance
\* ========================================================================

\* The amounts of a wallet's balance classes, in satoshis (u64).  The four
\* classes partition the wallet's unspent outputs, whose values sum to at
\* most the 21e14 satoshi supply, so their sums stay far below 2^64 and are
\* modelled as sums of naturals.
Sats == 0 .. MaxSats

\* bdk::Balance: the four classes the backend wallet reports.
BdkBalance ==
    [immature : Sats, trusted_pending : Sats, untrusted_pending : Sats, confirmed : Sats]

\* lib.rs 158, 171: bdk_balance.get_spendable(), the sum of trusted_pending
\* and confirmed coins.
get_spendable(b) == b.confirmed + b.trusted_pending

\* lib.rs 160, 172: bdk_balance.get_total(), the whole balance visible to the
\* wallet.
get_total(b) == b.confirmed + b.trusted_pending + b.untrusted_pending + b.immature

\* A conversion with the two derived fields filled from each other's getter.
From_BdkBalance_DerivedSwapped(b) ==
    [immature |-> b.immature,
     trusted_pending |-> b.trusted_pending,
     untrusted_pending |-> b.untrusted_pending,
     confirmed |-> b.confirmed,
     spendable |-> get_total(b),
     total |-> get_spendable(b)]

\* lib.rs 164-175: impl From<BdkBalance> for Balance
From_BdkBalance(b) ==
    [immature |-> b.immature,
     trusted_pending |-> b.trusted_pending,
     untrusted_pending |-> b.untrusted_pending,
     confirmed |-> b.confirmed,
     spendable |-> get_spendable(b),
     total |-> get_total(b)]

InitBalance ==
    /\ IdleAddr
    /\ IdleUtxo
    /\ IdleProgress
    /\ IdleCodec
    /\ bdk_balance \in BdkBalance
    /\ balance = NoBalance

\* Balance::from(bdk_balance)
ConvertBalance ==
    /\ balance = NoBalance
    /\ balance' = From_BdkBalance(bdk_balance)
    /\ UNCHANGED <<bdk_balance, addrVars, utxoVars, progressVars, codecVars>>

NextBalance == ConvertBalance

SpecBalance == InitBalance /\ [][NextBalance]_vars

\* C3: every Balance produced from a backend balance copies the four base
\* fields unchanged, has spendable = trusted_pending + confirmed and
\* total = immature + trusted_pending + untrusted_pending + confirmed, and
\* satisfies total >= spendable >= confirmed >= 0.
C3_BalanceConservation ==
    balance # NoBalance =>
        /\ balance.immature = bdk_balance.immature
        /\ balance.trusted_pending = bdk_balance.trusted_pending
        /\ balance.untrusted_pending = bdk_balance.untrusted_pending
        /\ balance.confirmed = bdk_balance.confirmed
        /\ balance.spendable = bdk_balance.trusted_pending + bdk_balance.confirmed
        /\ balance.total = bdk_balance.immature + bdk_balance.trusted_pending
                             + bdk_balance.untrusted_pending + bdk_balance.confirmed
        /\ balance.total >= balance.spendable
        /\ balance.spendable >= balance.confirmed
        /\ balance.confirmed >= 0

\* A balance with all four classes non-zero and distinct sums was converted.
C3_Witness ==
    /\ balance # NoBalance
    /\ balance.immature > 0
    /\ balance.trusted_pending > 0
    /\ balance.untrusted_pending > 0
    /\ balance.confirmed > 0
    /\ balance.total > balance.spendable
    /\ balance.spendable > balance.confirmed

\* ========================================================================
\* LocalUtxo::from_utxo
\* ========================================================================

\* The forms of a script_pubkey: those with a standard address form, and
\* those without one (a data carrier, a bare public key, a bare multisig).
StandardScripts == {"p2pkh", "p2sh", "p2wpkh", "p2tr"}
NonStandardScripts == {"op_return", "p2pk", "multisig"}
Scripts == StandardScripts \cup NonStandardScripts

Networks == {"bitcoin", "testnet"}

\* bdk::LocalUtxo { outpoint, txout { value, script_pubkey }, keychain, is_spent }
BdkLocalUtxo ==
    [outpoint : [txid : {"aa"}, vout : 0 .. 1],
     txout : [value : Sats, script_pubkey : Scripts],
     keychain : {"External", "Internal"},
     is_spent : BOOLEAN]

\* lib.rs 207: BdkAddress::from_script(&script_pubkey, network): an address
\* when the script has a standard address form, no address otherwise.
Address_from_script(script, net) ==
    IF script \in StandardScripts
        THEN [ok |-> TRUE, address |-> [payload |-> script, network |-> net]]
        ELSE [ok |-> FALSE]

\* lib.rs 209: Address::to_string, the network-qualified textual form.
Address_to_string(a) == <<a.network, a.payload>>

\* lib.rs 198-215: impl NetworkLocalUtxo for LocalUtxo, from_utxo.  The
\* unwrap() of line 208 panics when from_script yields no address.
from_utxo(x, net) ==
    LET a == Address_from_script(x.txout.script_pubkey, net)
    IN  IF a.ok
           THEN [outpoint |-> [txid |-> x.outpoint.txid, vout |-> x.outpoint.vout],
                 txout |-> [value |-> x.txout.value,
                            address |-> Address_to_string(a.address)],
                 keychain |-> x.keychain,
                 is_spent |-> x.is_spent]
           ELSE Panicked

InitUtxo ==
    /\ IdleAddr
    /\ IdleBalance
    /\ IdleProgress
    /\ IdleCodec
    /\ bdk_utxo \in BdkLocalUtxo
    /\ network \in Networks
    /\ local_utxo = NotCalled

\* LocalUtxo::from_utxo(&bdk_utxo, network)
ConvertUtxo ==
    /\ local_utxo = NotCalled
    /\ local_utxo' = from_utxo(bdk_utxo, network)
    /\ UNCHANGED <<bdk_utxo, network, addrVars, balanceVars, progressVars, codecVars>>

NextUtxo == ConvertUtxo

SpecUtxo == InitUtxo /\ [][NextUtxo]_vars

\* C8: once from_utxo has run on a wallet-owned output, an entry for its
\* outpoint exists with value, keychain and is_spent preserved, also when the
\* script_pubkey has no standard address form: the conversion does not abort.
C8_NonStandardRetained ==
    local_utxo # NotCalled =>
        /\ local_utxo # Panicked
        /\ local_utxo.outpoint = bdk_utxo.outpoint
        /\ local_utxo.txout.value = bdk_utxo.txout.value
        /\ local_utxo.keychain = bdk_utxo.keychain
        /\ local_utxo.is_spent = bdk_utxo.is_spent

\* ========================================================================
\* Sync Progress Bridge
\* ========================================================================

\* Progress values (f32 in 0.0 - 100.0) and optional messages.
ProgressValues == {0, 50, 100}
Messages == {<<>>, <<"msg">>}

\* What the observer's update does when called.
ObserverOutcomes == {"returns", "raises"}

\* An update that forwards the progress value and drops the message.
ObserverCalls_DropsMessage(progress, message) == << <<progress, <<>>>> >>

\* lib.rs 230: the calls ProgressHolder::update makes on the observer for one
\* event: self.progress.update(progress, message), once.
ObserverCalls(progress, message) == << <<progress, message>> >>

InitProgress ==
    /\ IdleAddr
    /\ IdleBalance
    /\ IdleUtxo
    /\ IdleProgress
    /\ IdleCodec

\* lib.rs 228-233: impl BdkProgress for ProgressHolder, update.  The observer
\* is called inline; when it returns, update returns Ok(()); when it raises,
\* the panic unwinds through update into the backend's sync.
ProgressHolder_update(progress, message, outcome) ==
    /\ sync_state = "running"
    /\ Len(events) < MaxEvents
    /\ events' = Append(events, <<progress, message>>)
    /\ observed' = observed \o ObserverCalls(progress, message)
    /\ IF outcome = "returns"
          THEN /\ results' = Append(results, "Ok")
               /\ UNCHANGED sync_state
          ELSE /\ sync_state' = "panicked"
               /\ UNCHANGED results
    /\ UNCHANGED <<addrVars, balanceVars, utxoVars, codecVars>>

UpdateObserverReturns ==
    \E p \in ProgressValues, m \in Messages : ProgressHolder_update(p, m, "returns")

UpdateObserverRaises ==
    \E p \in ProgressValues, m \in Messages : ProgressHolder_update(p, m, "raises")

NextProgress ==
    \/ UpdateObserverReturns
    \/ UpdateObserverRaises

SpecProgress == InitProgress /\ [][NextProgress]_vars

\* C9: the observer has received exactly one update call per event reported
\* to ProgressHolder::update, with the same progress value and message, in
\* the order the events were reported.
C9_ForwardedInOrder == observed = events

\* Three events, not all alike, have been forwarded.
C9_Witness ==
    /\ Len(events) = 3
    /\ events[1] # events[2]
    /\ events[2][2] # <<>>
    /\ Len(observed) = 3

\* C10: ProgressHolder::update has returned Ok to the backend for every
\* event reported, also when the observer's update raised, and the sync is
\* still running.
C10_BridgeNeverFails ==
    /\ Len(results) = Len(events)
    /\ \A i \in 1 .. Len(results) : results[i] = "Ok"
    /\ sync_state = "running"

\* ========================================================================
\* Transaction codec
\* ========================================================================
\* The consensus serialization, with every fixed-width field one byte wide
\* and a three-valued byte:
\*   version | [marker 0, flag 1] | inputs | outputs | [witnesses] | lock_time
\* An input is its previous_output; an output is its value and its
\* length-prefixed script_pubkey; a witness is a length-prefixed list of
\* length-prefixed items.

Byte == 0 .. 2

\* The byte that announces a wider length (0xFD on the wire): the lengths
\* below it are written as themselves, the others after the prefix.
VarIntPrefix == CHOOSE b \in Byte : \A c \in Byte : c <= b

ByteStrings == UNION {[1 .. n -> Byte] : n \in 0 .. MaxLen}

Ok(v, p) == [ok |-> TRUE, val |-> v, pos |-> p]
Err(e) == [ok |-> FALSE, error |-> e]

\* u8::consensus_decode: the byte at the cursor, or an I/O error at the end.
ReadU8(b, pos) ==
    IF pos <= Len(b) THEN Ok(b[pos], pos + 1) ELSE Err("UnexpectedEof")

\* The wider form of a length, after the prefix f: the value g that follows
\* must need the wider form.
ReadVarIntWide(g) ==
    IF ~g.ok THEN g
    ELSE IF g.val < VarIntPrefix THEN Err("NonMinimalVarInt")
    ELSE g

ReadVarIntAfter(b, f) ==
    IF ~f.ok THEN f
    ELSE IF f.val < VarIntPrefix THEN f
    ELSE ReadVarIntWide(ReadU8(b, f.pos))

\* VarInt::consensus_decode: rejects an encoding longer than needed.
ReadVarInt(b, pos) == ReadVarIntAfter(b, ReadU8(b, pos))

ReadBytesAfter(b, n) ==
    IF ~n.ok THEN n
    ELSE IF n.pos + n.val - 1 <= Len(b)
            THEN Ok(SubSeq(b, n.pos, n.pos + n.val - 1), n.pos + n.val)
            ELSE Err("UnexpectedEof")

\* Vec<u8>::consensus_decode (a script, a witness item): a length and as
\* many bytes.
ReadVarBytes(b, pos) == ReadBytesAfter(b, ReadVarInt(b, pos))

\* TxIn::consensus_decode: the previous_output; the witness is filled later.
ReadTxIn(p) ==
    IF ~p.ok THEN p
    ELSE Ok([previous_output |-> p.val, witness |-> <<>>], p.pos)

\* TxIn::consensus_decode, n times from pos.
RECURSIVE ReadTxIns(_, _, _, _)
ReadTxInsNext(b, n, acc, in) ==
    IF ~in.ok THEN in ELSE ReadTxIns(b, in.pos, n - 1, Append(acc, in.val))

ReadTxIns(b, pos, n, acc) ==
    IF n = 0 THEN Ok(acc, pos)
    ELSE ReadTxInsNext(b, n, acc, ReadTxIn(ReadU8(b, pos)))

ReadTxInsAfter(b, n) ==
    IF ~n.ok THEN n ELSE ReadTxIns(b, n.pos, n.val, <<>>)

\* Vec<TxIn>::consensus_decode
ReadVecTxIn(b, pos) == ReadTxInsAfter(b, ReadVarInt(b, pos))

ReadTxOutScript(v, sc) ==
    IF ~sc.ok THEN sc
    ELSE Ok([value |-> v.val, script_pubkey |-> sc.val], sc.pos)

ReadTxOutAfter(b, v) ==
    IF ~v.ok THEN v ELSE ReadTxOutScript(v, ReadVarBytes(b, v.pos))

\* TxOut::consensus_decode: the value, then the script_pubkey.
ReadTxOut(b, pos) == ReadTxOutAfter(b, ReadU8(b, pos))

\* TxOut::consensus_decode, n times from pos.
RECURSIVE ReadTxOuts(_, _, _, _)
ReadTxOutsNext(b, n, acc, out) ==
    IF ~out.ok THEN out ELSE ReadTxOuts(b, out.pos, n - 1, Append(acc, out.val))

ReadTxOuts(b, pos, n, acc) ==
    IF n = 0 THEN Ok(acc, pos)
    ELSE ReadTxOutsNext(b, n, acc, ReadTxOut(b, pos))

ReadTxOutsAfter(b, n) ==
    IF ~n.ok THEN n ELSE ReadTxOuts(b, n.pos, n.val, <<>>)

\* Vec<TxOut>::consensus_decode
ReadVecTxOut(b, pos) == ReadTxOutsAfter(b, ReadVarInt(b, pos))

\* The items of one witness, n of them from pos.
RECURSIVE ReadWitnessItems(_, _, _, _)
ReadWitnessItemsNext(b, n, acc, it) ==
    IF ~it.ok THEN it ELSE ReadWitnessItems(b, it.pos, n - 1, Append(acc, it.val))

ReadWitnessItems(b, pos, n, acc) ==
    IF n = 0 THEN Ok(acc, pos)
    ELSE ReadWitnessItemsNext(b, n, acc, ReadVarBytes(b, pos))

ReadWitnessAfter(b, n) ==
    IF ~n.ok THEN n ELSE ReadWitnessItems(b, n.pos, n.val, <<>>)

\* Witness::consensus_decode
ReadWitness(b, pos) == ReadWitnessAfter(b, ReadVarInt(b, pos))

\* for txin in input.iter_mut() { txin.witness = Decodable::consensus_decode }
RECURSIVE ReadWitnesses(_, _, _, _)
ReadWitnessesNext(b, ins, i, w) ==
    IF ~w.ok THEN w
    ELSE ReadWitnesses(b, w.pos, [ins EXCEPT ![i].witness = w.val], i + 1)

ReadWitnesses(b, pos, ins, i) ==
    IF i > Len(ins) THEN Ok(ins, pos)
    ELSE ReadWitnessesNext(b, ins, i, ReadWitness(b, pos))

\* The tail every form shares: lock_time, then the Transaction.
ReadLockTime(version, ins, outs, lt) ==
    IF ~lt.ok THEN lt
    ELSE Ok([version |-> version, input |-> ins, output |-> outs,
             lock_time |-> lt.val], lt.pos)

\* The segwit form once the witnesses are read: a non-empty input list whose
\* witnesses are all empty is refused.
ReadSegwitTail(b, version, outs, ws) ==
    IF ~ws.ok THEN ws
    ELSE IF /\ Len(ws.val) > 0
            /\ \A i \in 1 .. Len(ws.val) : ws.val[i].witness = <<>>
            THEN Err("ParseFailed: witness flag set but no witnesses")
            ELSE ReadLockTime(version, ws.val, outs.val, ReadU8(b, ws.pos))

ReadSegwitOutputs(b, version, ins, outs) ==
    IF ~outs.ok THEN outs
    ELSE ReadSegwitTail(b, version, outs, ReadWitnesses(b, outs.pos, ins.val, 1))

ReadSegwitInputs(b, version, ins) ==
    IF ~ins.ok THEN ins
    ELSE ReadSegwitOutputs(b, version, ins, ReadVecTxOut(b, ins.pos))

\* The segwit form, after the marker: the flag must be 1.
ReadSegwitFlag(b, version, flag) ==
    IF ~flag.ok THEN flag
    ELSE IF flag.val = 1
            THEN ReadSegwitInputs(b, version, ReadVecTxIn(b, flag.pos))
            ELSE Err("UnsupportedSegwitFlag")

\* The legacy form, after a non-empty input list.
ReadLegacyOutputs(b, version, ins, outs) ==
    IF ~outs.ok THEN outs
    ELSE ReadLockTime(version, ins.val, outs.val, ReadU8(b, outs.pos))

\* An empty input list is the segwit marker.
ReadAfterInputs(b, version, ins) ==
    IF ~ins.ok THEN ins
    ELSE IF ins.val = <<>>
            THEN ReadSegwitFlag(b, version, ReadU8(b, ins.pos))
            ELSE ReadLegacyOutputs(b, version, ins, ReadVecTxOut(b, ins.pos))

ReadAfterVersion(b, version) ==
    IF ~version.ok THEN version
    ELSE ReadAfterInputs(b, version.val, ReadVecTxIn(b, version.pos))

\* lib.rs 250: BdkTransaction::consensus_decode(&mut decoder).  Reads one
\* transaction from the cursor and stops there: val is the transaction, pos
\* the cursor after it.
consensus_decode(b) == ReadAfterVersion(b, ReadU8(b, 1))

RECURSIVE Flatten(_)
Flatten(ss) == IF ss = <<>> THEN <<>> ELSE Head(ss) \o Flatten(Tail(ss))

\* VarInt::consensus_encode: always the shortest form.
EncodeVarInt(n) == IF n < VarIntPrefix THEN <<n>> ELSE <<VarIntPrefix, n>>

EncodeVarBytes(bs) == EncodeVarInt(Len(bs)) \o bs

EncodeVecTxIn(ins) ==
    EncodeVarInt(Len(ins))
        \o Flatten([i \in 1 .. Len(ins) |-> <<ins[i].previous_output>>])

EncodeVecTxOut(outs) ==
    EncodeVarInt(Len(outs))
        \o Flatten([i \in 1 .. Len(outs) |->
                        <<outs[i].value>> \o EncodeVarBytes(outs[i].script_pubkey)])

EncodeWitness(w) ==
    EncodeVarInt(Len(w)) \o Flatten([i \in 1 .. Len(w) |-> EncodeVarBytes(w[i])])

\* lib.rs 255: self.internal.serialize().  The segwit form is written when
\* an input carries a witness, and when there is no input at all.
consensus_encode(tx) ==
    LET have_witness ==
            \/ tx.input = <<>>
            \/ \E i \in 1 .. Len(tx.input) : tx.input[i].witness # <<>>
    IN  IF ~have_witness
           THEN <<tx.version>> \o EncodeVecTxIn(tx.input) \o EncodeVecTxOut(tx.output)
                    \o <<tx.lock_time>>
           ELSE <<tx.version, 0, 1>> \o EncodeVecTxIn(tx.input)
                    \o EncodeVecTxOut(tx.output)
                    \o Flatten([i \in 1 .. Len(tx.input) |->
                                    EncodeWitness(tx.input[i].witness)])
                    \o <<tx.lock_time>>

InitCodec ==
    /\ IdleAddr
    /\ IdleBalance
    /\ IdleUtxo
    /\ IdleProgress
    /\ transaction_bytes \in ByteStrings
    /\ decoder_consumed = 0
    /\ tx_result = NotCalled
    /\ serialized = NotCalled

\* lib.rs 248-252: Transaction::new.  The decoder is a Cursor over the bytes;
\* a decode error is returned by `?`, and a decoded transaction is returned
\* whatever the cursor has left unread.
Transaction_new ==
    /\ tx_result = NotCalled
    /\ LET d == consensus_decode(transaction_bytes)
       IN  IF d.ok
              THEN /\ tx_result' = [ok |-> TRUE, tx |-> d.val]
                   /\ decoder_consumed' = d.pos - 1
              ELSE /\ tx_result' = [ok |-> FALSE, error |-> d.error]
                   /\ UNCHANGED decoder_consumed
    /\ UNCHANGED <<transaction_bytes, serialized>>
    /\ UNCHANGED <<addrVars, balanceVars, utxoVars, progressVars>>

\* lib.rs 254-256: Transaction::serialize
Transaction_serialize ==
    /\ tx_result # NotCalled
    /\ tx_result.ok
    /\ serialized = NotCalled
    /\ serialized' = consensus_encode(tx_result.tx)
    /\ UNCHANGED <<transaction_bytes, decoder_consumed, tx_result>>
    /\ UNCHANGED <<addrVars, balanceVars, utxoVars, progressVars>>

NextCodec ==
    \/ Transaction_new
    \/ Transaction_serialize

SpecCodec == InitCodec /\ [][NextCodec]_vars

\* C1: for every byte sequence that Transaction::new accepts, serialize() of
\* the resulting Transaction returns exactly those bytes.
C1_RoundTrip ==
    serialized # NotCalled => serialized = transaction_bytes

\* The round trip of the bytes the decoder has read: serialize() returns the
\* prefix of the input that new consumed.
RoundTripOfConsumed ==
    serialized # NotCalled =>
        serialized = SubSeq(transaction_bytes, 1, decoder_consumed)

\* A segwit transaction with a non-empty witness has been round-tripped.
RoundTripSegwitReached ==
    /\ serialized # NotCalled
    /\ serialized = transaction_bytes
    /\ Len(tx_result.tx.input) > 0
    /\ tx_result.tx.input[1].witness # <<>>

\* The bytes are a complete encoded transaction followed by extra bytes.
HasTrailingBytes(b) ==
    \E k \in 0 .. Len(b) - 1 :
        LET d == consensus_decode(SubSeq(b, 1, k))
        IN  d.ok /\ d.pos = k + 1

\* C2: Transaction::new returns an error whenever the bytes are an encoded
\* transaction followed by extra trailing bytes; it never succeeds after
\* consuming only a prefix of the input.
C2_RejectsTrailingBytes ==
    tx_result # NotCalled =>
        /\ HasTrailingBytes(transaction_bytes) => ~tx_result.ok
        /\ tx_result.ok => decoder_consumed = Len(transaction_bytes)

\* Truncated input is rejected: no proper prefix of bytes that new accepts
\* and consumes whole is accepted as well.
TruncatedRejected ==
    (tx_result # NotCalled /\ tx_result.ok) =>
        \A k \in 0 .. decoder_consumed - 1 :
            ~consensus_decode(SubSeq(transaction_bytes, 1, k)).ok

====
